---- MODULE Spec2Model ----
(***************************************************************************)
(* Model of fitness_tracker.py: the user registry (users.json), the        *)
(* per-user directories (exercises.json, workouts.json), the archive and   *)
(* backup roots, and the JSON snapshot export/import.                      *)
(*                                                                         *)
(* Strings that the code compares by prefix or sorts (folder names,        *)
(* exercise names, dates) are sequences of character codes.  File-system   *)
(* trees are functions from entry name to content.                         *)
(***************************************************************************)
EXTENDS Integers, Sequences, FiniteSets, TLC

VARIABLES
    now,        \* the wall clock read by datetime.now(), in ticks
    users,      \* users.json: the sequence under the key "users"
    dirs,       \* DATA_DIR/<username>: directory name -> directory content
    archive,    \* ARCHIVE_DIR: folder name -> directory content
    backups,    \* BACKUP_DIR: folder name -> [users, sub]
    snapshot,   \* <<the text create_backup_file produced last>>, or <<>>
    calls,      \* the number of calls made so far
    taken,      \* history: names of the backup folders create_backup completed
    result,     \* history: the last call, its arguments and its outcome
    sessions    \* the save_workout call each browser session is inside

vars == <<now, users, dirs, archive, backups, snapshot, calls, taken, result,
          sessions>>

(***************************************************************************)
(* Bounds of the model.                                                    *)
(***************************************************************************)
MaxTime == 1          \* last clock tick of the lifecycle specification
MaxCalls == 5         \* calls in one behaviour of the lifecycle specification
MaxBackupTime == 6    \* last clock tick of the retention specification
MaxBackupCalls == 7   \* calls in one behaviour of the retention specification
TicksPerDay == 2      \* clock ticks per calendar day
MaxWorkouts == 2      \* longest workouts collection an append may extend
MaxCatalog == 2       \* longest exercise catalog an upsert may extend
MaxRows == 2          \* rows of an imported CSV table

(***************************************************************************)
(* Character codes.                                                        *)
(***************************************************************************)
Underscore == 95
Space == 32
Dash == 45
Slash == 47
Zero == 48

\* "al" and "al_b": one username is a prefix of the other's folder names
al == <<97, 108>>
al_b == <<97, 108, 95, 98>>
UserNames == {al, al_b}

\* protection codes: the four digits random.randint draws, and the codes a
\* user may type when asked for one
Codes == {"1234"}
TypedCodes == {"1234", "0000"}
NoCode == "None"      \* user.get('protection_code') of a record without one
EmptyInput == ""      \* st.text_input left empty

NoInfo == "NoInfo"

(***************************************************************************)
(* Finite maps (directory listings, JSON objects).                         *)
(***************************************************************************)
EmptyMap == [k \in {} |-> k]
Put(f, k, v) == [x \in (DOMAIN f) \cup {k} |-> IF x = k THEN v ELSE f[x]]
Drop(f, k) == [x \in (DOMAIN f) \ {k} |-> f[x]]

(***************************************************************************)
(* String helpers.                                                         *)
(***************************************************************************)
\* str.startswith
StartsWith(s, p) ==
    /\ Len(p) <= Len(s)
    /\ \A i \in 1..Len(p) : s[i] = p[i]

\* Python's str ordering: code point by code point, a proper prefix first
RECURSIVE LexLess(_, _)
LexLess(s, t) ==
    IF s = <<>> THEN t # <<>>
    ELSE IF t = <<>> THEN FALSE
    ELSE IF Head(s) # Head(t) THEN Head(s) < Head(t)
    ELSE LexLess(Tail(s), Tail(t))

\* sorted(list of distinct strings)
RECURSIVE Sorted(_)
Sorted(S) ==
    IF S = {} THEN <<>>
    ELSE LET m == CHOOSE x \in S : \A y \in S \ {x} : LexLess(x, y)
         IN  <<m>> \o Sorted(S \ {m})

Digits2(n) == <<Zero + ((n \div 10) % 10), Zero + (n % 10)>>

\* the calendar day (of January 2024) and the second of the day of a tick
DayOf(t) == 1 + (t \div TicksPerDay)
SecondOf(t) == t % TicksPerDay

\* datetime.now().strftime('%Y%m%d_%H%M%S')
Stamp(t) ==
    <<50, 48, 50, 52, 48, 49>> \o Digits2(DayOf(t)) \o <<Underscore>>
        \o <<48, 48, 48, 48>> \o Digits2(SecondOf(t))

\* f"backup_{timestamp}"
BackupName(t) == <<98, 97, 99, 107, 117, 112, Underscore>> \o Stamp(t)
BackupPrefix == <<98, 97, 99, 107, 117, 112, Underscore>>

\* f"{name}_{timestamp}"
ArchiveName(name, t) == name \o <<Underscore>> \o Stamp(t)

(***************************************************************************)
(* Storage.                                                                *)
(***************************************************************************)
\* the two files init_user_storage writes, and no sub-directory; lost names
\* the files that do not exist in the directory (their content is then <<>>)
Files == {"exercises", "workouts"}
EmptyDir == [exercises |-> <<>>, workouts |-> <<>>, sub |-> EmptyMap,
             lost |-> {}]

\* open(file, 'r') succeeds
CanRead(d, username, file) ==
    /\ username \in DOMAIN d
    /\ file \notin d[username].lost

\* init_user_storage: creates the directory and the files that are missing;
\* an existing file is left as it is
init_user_storage(d, username) ==
    IF username \in DOMAIN d
    THEN [d EXCEPT ![username].lost = {}]
    ELSE Put(d, username, EmptyDir)

\* any(user['name'] == name for user in users)
HasUser(us, name) == \E i \in 1..Len(us) : us[i].name = name

\* next((u for u in users if u['name'] == name), None)
FindUser(us, name) ==
    LET i == CHOOSE j \in 1..Len(us) :
                 /\ us[j].name = name
                 /\ \A k \in 1..(j - 1) : us[k].name # name
    IN  us[i]

\* [u for u in users if u['name'] != name]
RemoveUser(us, name) == SelectSeq(us, LAMBDA u : u.name # name)

Outcome(op, name, status, info) ==
    [op |-> op, name |-> name, status |-> status, info |-> info]

\* The loop of create_backup over the registry: copytree of every user
\* directory into the backup folder; copytree raises FileExistsError when
\* the destination exists, which ends create_backup with that exception.
RECURSIVE CopyUsers(_, _, _, _)
CopyUsers(folder, us, i, d) ==
    IF i > Len(us) THEN [folder |-> folder, ok |-> TRUE]
    ELSE LET username == us[i].name IN
         IF username \notin DOMAIN d
         THEN CopyUsers(folder, us, i + 1, d)
         ELSE IF username \in DOMAIN folder.sub
         THEN [folder |-> folder, ok |-> FALSE]
         ELSE CopyUsers([folder EXCEPT !.sub = Put(@, username, d[username])],
                        us, i + 1, d)

\* "Keep only last 5 backups": the folders create_backup removes
Retained == 5
OldBackups_newest(bk) ==
    LET names == Sorted({b \in DOMAIN bk : StartsWith(b, BackupPrefix)})
    IN  IF Len(names) > Retained
        THEN {names[i] : i \in (Retained + 1)..Len(names)}
        ELSE {}

OldBackups(bk) ==
    LET names == Sorted({b \in DOMAIN bk : StartsWith(b, BackupPrefix)})
    IN  IF Len(names) > Retained
        THEN {names[i] : i \in 1..(Len(names) - Retained)}
        ELSE {}

\* create_backup at clock reading t: the backup root afterwards, and whether
\* the call returned (ok) or ended with the exception of copytree
create_backup(bk, us, d, t) ==
    LET path == BackupName(t)
        start == IF path \in DOMAIN bk
                 THEN [bk[path] EXCEPT !.users = us]
                 ELSE [users |-> us, sub |-> EmptyMap]
        copied == CopyUsers(start, us, 1, d)
        written == Put(bk, path, copied.folder)
    IN  IF copied.ok
        THEN [backups |-> [b \in (DOMAIN written) \ OldBackups(written)
                              |-> written[b]],
              ok |-> TRUE]
        ELSE [backups |-> written, ok |-> FALSE]

\* the browser sessions, and the state in which none is inside a call
Sessions == {1, 2}
Idle == [s \in Sessions |-> [pc |-> "idle", workouts |-> <<>>]]

(***************************************************************************)
(* Initial state: init_data_storage has created the roots and an empty     *)
(* registry.                                                               *)
(***************************************************************************)
Init ==
    /\ now = 0
    /\ users = <<>>
    /\ dirs = EmptyMap
    /\ archive = EmptyMap
    /\ backups = EmptyMap
    /\ snapshot = <<>>
    /\ calls = 0
    /\ taken = {}
    /\ result = Outcome("init", <<>>, "ok", NoInfo)
    /\ sessions = Idle

\* time passes between two calls
Tick(bound) ==
    /\ now < bound
    /\ now' = now + 1
    /\ UNCHANGED <<users, dirs, archive, backups, snapshot, calls, taken,
                   result, sessions>>

save_user_unchecked(name, code) ==
    /\ users' = Append(users, [id |-> Len(users) + 1,
                               name |-> name,
                               created_at |-> now,
                               protection_code |-> code])
    /\ dirs' = init_user_storage(dirs, name)
    /\ result' = Outcome("save_user", name, "ok", NoInfo)
    /\ UNCHANGED <<now, archive, backups, snapshot, taken>>

\* save_user(name); code is the protection code the random digits make
save_user(name, code) ==
    IF HasUser(users, name)
    THEN /\ result' = Outcome("save_user", name, "AlreadyExists", NoInfo)
         /\ UNCHANGED <<now, users, dirs, archive, backups, snapshot, taken>>
    ELSE /\ users' = Append(users, [id |-> Len(users) + 1,
                                    name |-> name,
                                    created_at |-> now,
                                    protection_code |-> code])
         /\ dirs' = init_user_storage(dirs, name)
         /\ result' = Outcome("save_user", name, "ok", NoInfo)
         /\ UNCHANGED <<now, archive, backups, snapshot, taken>>

\* create_backup() called directly (backup_all)
backup_all ==
    LET made == create_backup(backups, users, dirs, now) IN
    /\ backups' = made.backups
    /\ taken' = IF made.ok THEN taken \cup {BackupName(now)} ELSE taken
    /\ result' = Outcome("create_backup", <<>>,
                         IF made.ok THEN "ok" ELSE "raised", NoInfo)
    /\ UNCHANGED <<now, users, dirs, archive, snapshot>>

\* protection_code != user.get('protection_code')
code_rejected_never(code, user) == FALSE
code_rejected(code, user) == code # user.protection_code

\* delete_user(name); code is what st.text_input returns, and the clock may
\* advance by delay between the timestamp of the backup and the timestamp
\* of the archive folder
delete_user(name, code, delay, bound) ==
    LET op == "delete_user"
        failed(status) ==
            result' = Outcome(op, name, status, [code |-> code])
        done(before, folder) ==
            result' = Outcome(op, name, "ok",
                              [code |-> code, before |-> before,
                               folder |-> folder,
                               backup |-> BackupName(now)])
    IN
    IF ~HasUser(users, name)
    THEN /\ failed("NotFound")
         /\ UNCHANGED <<now, users, dirs, archive, backups, snapshot, taken>>
    ELSE IF code = EmptyInput
    THEN /\ failed("CodeMissing")
         /\ UNCHANGED <<now, users, dirs, archive, backups, snapshot, taken>>
    ELSE IF code_rejected(code, FindUser(users, name))
    THEN /\ failed("InvalidCode")
         /\ UNCHANGED <<now, users, dirs, archive, backups, snapshot, taken>>
    ELSE LET made == create_backup(backups, users, dirs, now)
             dst == ArchiveName(name, now + delay)
         IN
         /\ now + delay <= bound
         /\ backups' = made.backups
         /\ UNCHANGED snapshot
         /\ IF ~made.ok
            THEN \* the exception of create_backup leaves delete_user
                 /\ failed("raised")
                 /\ UNCHANGED <<now, users, dirs, archive, taken>>
            ELSE /\ taken' = taken \cup {BackupName(now)}
                 /\ users' = RemoveUser(users, name)
                 /\ now' = now + delay
                 /\ IF name \notin DOMAIN dirs
                    THEN /\ done(<<>>, <<>>)
                         /\ UNCHANGED <<dirs, archive>>
                    ELSE IF dst \notin DOMAIN archive
                    THEN \* shutil.move renames the directory to dst
                         /\ archive' = Put(archive, dst, dirs[name])
                         /\ dirs' = Drop(dirs, name)
                         /\ done(<<dirs[name]>>, <<dst>>)
                    ELSE IF name \in DOMAIN archive[dst].sub
                    THEN \* shutil.move: "Destination path already exists"
                         /\ failed("raised")
                         /\ UNCHANGED <<dirs, archive>>
                    ELSE \* shutil.move into the existing folder dst
                         /\ archive' = [archive EXCEPT
                                ![dst].sub = Put(@, name, dirs[name])]
                         /\ dirs' = Drop(dirs, name)
                         /\ done(<<dirs[name]>>, <<>>)

\* [d for d in os.listdir(ARCHIVE_DIR) if d.startswith(username + '_')]
user_archives(arch, username) ==
    {d \in DOMAIN arch : StartsWith(d, username \o <<Underscore>>)}

\* sorted(user_archives)[-1]
latest_archive(arch, username) ==
    LET names == Sorted(user_archives(arch, username)) IN names[Len(names)]

\* what shutil.copytree(archive_path, user_dir) can do: copy every entry
\* and return, raise at os.makedirs, or raise after it tried every entry
\* and left some of them uncopied
Entries == Files \cup {"sub"}
NoFault == [step |-> "none", uncopied |-> {}]
CopyFaults ==
    {NoFault, [step |-> "makedirs", uncopied |-> {}]}
        \cup {[step |-> "copy", uncopied |-> S] : S \in SUBSET Entries}

\* the directory copytree leaves behind when it could not copy some entries
PartialCopy(dir, uncopied) ==
    [exercises |-> IF "exercises" \in uncopied THEN <<>> ELSE dir.exercises,
     workouts |-> IF "workouts" \in uncopied THEN <<>> ELSE dir.workouts,
     sub |-> IF "sub" \in uncopied THEN EmptyMap ELSE dir.sub,
     lost |-> dir.lost \cup (uncopied \cap Files)]

\* the except clause of restore_user after copytree raised: the registry
\* entry is written, rmtree(archive_path) was not reached
copy_failed_archive_removed(username, latest, fault) ==
    /\ dirs' = IF fault.step = "makedirs" THEN Drop(dirs, username)
               ELSE Put(dirs, username,
                        PartialCopy(archive[latest], fault.uncopied))
    /\ archive' = Drop(archive, latest)
    /\ result' = Outcome("restore_user", username, "Error",
                         [folder |-> latest])

copy_failed(username, latest, fault) ==
    /\ dirs' = IF fault.step = "makedirs" THEN Drop(dirs, username)
               ELSE Put(dirs, username,
                        PartialCopy(archive[latest], fault.uncopied))
    /\ UNCHANGED archive
    /\ result' = Outcome("restore_user", username, "Error",
                         [folder |-> latest])

\* the try block of restore_user: the registry entry (without a protection
\* code), then the copy of the latest archive folder, then its removal
restore_archived(username, fault) ==
    LET latest == latest_archive(archive, username) IN
    /\ users' = Append(users, [id |-> Len(users) + 1,
                               name |-> username,
                               created_at |-> now,
                               protection_code |-> NoCode])
    /\ UNCHANGED <<now, backups, snapshot, taken>>
    /\ IF fault.step = "none"
       THEN \* init_user_storage, rmtree(user_dir), copytree, rmtree
            /\ dirs' = Put(dirs, username, archive[latest])
            /\ archive' = Drop(archive, latest)
            /\ result' = Outcome("restore_user", username, "ok",
                                 [folder |-> latest])
       ELSE copy_failed(username, latest, fault)

restore_user_unchecked(username, fault) ==
    IF user_archives(archive, username) = {}
    THEN /\ result' = Outcome("restore_user", username, "NotFound", NoInfo)
         /\ UNCHANGED <<now, users, dirs, archive, backups, snapshot, taken>>
    ELSE restore_archived(username, fault)

\* restore_user(username); fault is what copytree does when it is reached
restore_user(username, fault) ==
    IF user_archives(archive, username) = {}
    THEN /\ result' = Outcome("restore_user", username, "NotFound", NoInfo)
         /\ UNCHANGED <<now, users, dirs, archive, backups, snapshot, taken>>
    ELSE IF HasUser(users, username)
    THEN /\ result' = Outcome("restore_user", username, "AlreadyExists",
                               NoInfo)
         /\ UNCHANGED <<now, users, dirs, archive, backups, snapshot, taken>>
    ELSE restore_archived(username, fault)

\* the names under which create_backup_file can read both files
Readable(us, d) ==
    {username \in {us[i].name : i \in 1..Len(us)} :
        \A file \in Files : CanRead(d, username, file)}

backup_data_same_file(us, d) ==
    [users |-> us,
     user_data |-> [username \in Readable(us, d) |->
                       [exercises |-> d[username].exercises,
                        workouts |-> d[username].exercises]]]

\* create_backup_file(): the object that json.dumps serialises
backup_data(us, d) ==
    [users |-> us,
     user_data |-> [username \in Readable(us, d) |->
                       [exercises |-> d[username].exercises,
                        workouts |-> d[username].workouts]]]

create_backup_file ==
    /\ snapshot' = <<backup_data(users, dirs)>>
    /\ result' = Outcome("create_backup_file", <<>>, "ok", NoInfo)
    /\ UNCHANGED <<now, users, dirs, archive, backups, taken>>

\* the loop of restore_from_backup_file over backup_data['user_data']
restore_user_data(d, user_data) ==
    [username \in (DOMAIN d) \cup (DOMAIN user_data) |->
        IF username \notin DOMAIN user_data THEN d[username]
        ELSE [init_user_storage(d, username)[username] EXCEPT
                 !.exercises = user_data[username].exercises,
                 !.workouts = user_data[username].workouts,
                 !.lost = {}]]

\* restore_from_backup_file(backup_content) on a text exported earlier
restore_from_backup_file ==
    /\ snapshot # <<>>
    /\ users' = snapshot[1].users
    /\ dirs' = restore_user_data(dirs, snapshot[1].user_data)
    /\ result' = Outcome("restore_from_backup_file", <<>>, "ok",
                         [previous |-> result.op])
    /\ UNCHANGED <<now, archive, backups, snapshot, taken>>

(***************************************************************************)
(* Per-user store.                                                         *)
(***************************************************************************)
\* str.lower on the letters A..Z
Lower(s) == [i \in 1..Len(s) |->
                IF s[i] \in 65..90 THEN s[i] + 32 ELSE s[i]]

\* str.split(): the maximal runs of non-blank characters
RECURSIVE SplitFrom(_, _, _, _)
SplitFrom(s, i, word, words) ==
    IF i > Len(s)
    THEN IF word = <<>> THEN words ELSE Append(words, word)
    ELSE IF s[i] = Space
    THEN SplitFrom(s, i + 1, <<>>,
                   IF word = <<>> THEN words ELSE Append(words, word))
    ELSE SplitFrom(s, i + 1, Append(word, s[i]), words)

Split(s) == SplitFrom(s, 1, <<>>, <<>>)

\* " ".join(words)
RECURSIVE Join(_)
Join(words) ==
    IF words = <<>> THEN <<>>
    ELSE IF Len(words) = 1 THEN words[1]
    ELSE words[1] \o <<Space>> \o Join(Tail(words))

\* str.strip()
RECURSIVE Strip(_)
Strip(s) ==
    IF s = <<>> THEN s
    ELSE IF Head(s) = Space THEN Strip(Tail(s))
    ELSE IF s[Len(s)] = Space THEN Strip(SubSeq(s, 1, Len(s) - 1))
    ELSE s

\* normalize_exercise_name: " ".join(name.lower().split())
normalize_exercise_name(name) == Join(Split(Lower(name)))

\* the value of a run of decimal digits, or -1 when a character is no digit
RECURSIVE Number(_)
Number(s) ==
    IF s = <<>> THEN 0
    ELSE LET last == s[Len(s)]
             rest == Number(SubSeq(s, 1, Len(s) - 1))
         IN  IF last \notin Zero..(Zero + 9) \/ rest = -1 THEN -1
             ELSE 10 * rest + (last - Zero)

\* a calendar date is the number yyyymmdd; NaD stands for a parse error
NaD == -1
MakeDate(y, m, d) == IF y = -1 \/ m = -1 \/ d = -1 THEN NaD
                     ELSE 10000 * y + 100 * m + d

\* pd.to_datetime on one text: "YYYY-MM-DD" or (month first) "MM/DD/YYYY"
to_datetime(s) ==
    IF Len(s) = 10 /\ s[5] = Dash /\ s[8] = Dash
    THEN MakeDate(Number(SubSeq(s, 1, 4)), Number(SubSeq(s, 6, 7)),
                  Number(SubSeq(s, 9, 10)))
    ELSE IF Len(s) = 10 /\ s[3] = Slash /\ s[6] = Slash
    THEN MakeDate(Number(SubSeq(s, 7, 10)), Number(SubSeq(s, 1, 2)),
                  Number(SubSeq(s, 4, 5)))
    ELSE NaD

\* strftime('%Y-%m-%d')
IsoDate(date) ==
    Digits2(date \div 1000000) \o Digits2((date \div 10000) % 100)
        \o <<Dash>> \o Digits2((date \div 100) % 100)
        \o <<Dash>> \o Digits2(date % 100)

\* the same date as a spreadsheet writes it, month first
UsDate(date) ==
    Digits2((date \div 100) % 100) \o <<Slash>> \o Digits2(date % 100)
        \o <<Slash>> \o Digits2(date \div 1000000)
        \o Digits2((date \div 10000) % 100)

\* datetime.now() as a calendar date
Today(t) == MakeDate(2024, 1, DayOf(t))

\* the outcome of a store call that ended with the exception of open():
\* nothing was written
Raised(op, arg) ==
    /\ result' = Outcome(op, arg, "raised", NoInfo)
    /\ UNCHANGED <<now, users, dirs, archive, backups, snapshot, taken>>

\* the first index whose entry has the normalized name, or 0
FirstMatch(exercises, normalized_name) ==
    IF \E i \in 1..Len(exercises) :
           normalize_exercise_name(exercises[i].name) = normalized_name
    THEN CHOOSE i \in 1..Len(exercises) :
           /\ normalize_exercise_name(exercises[i].name) = normalized_name
           /\ \A k \in 1..(i - 1) :
                 normalize_exercise_name(exercises[k].name) # normalized_name
    ELSE 0

\* the list save_exercise writes back
upsert(exercises, name, muscle_group, t) ==
    LET normalized_name == normalize_exercise_name(name)
        i == FirstMatch(exercises, normalized_name)
    IN  IF i # 0
        THEN [exercises EXCEPT ![i] =
                 [name |-> normalized_name,
                  muscle_group |-> muscle_group,
                  created_at |-> exercises[i].created_at]]
        ELSE Append(exercises, [name |-> normalized_name,
                                muscle_group |-> muscle_group,
                                created_at |-> t])

\* save_exercise(name, muscle_group, username)
save_exercise(name, muscle_group, username) ==
    IF ~CanRead(dirs, username, "exercises")
    THEN Raised("save_exercise", <<username, name>>)
    ELSE LET before == dirs[username].exercises
             after == upsert(before, name, muscle_group, now)
         IN
         /\ Len(after) <= MaxCatalog
         /\ dirs' = [dirs EXCEPT ![username].exercises = after]
         /\ result' = Outcome("save_exercise", <<username, name>>, "ok",
                              [muscle_group |-> muscle_group])
         /\ UNCHANGED <<now, users, archive, backups, snapshot, taken>>

\* delete_exercise(name, username)
delete_exercise(name, username) ==
    IF ~CanRead(dirs, username, "exercises")
    THEN Raised("delete_exercise", <<username, name>>)
    ELSE /\ dirs' = [dirs EXCEPT ![username].exercises =
                        SelectSeq(@, LAMBDA ex : ex.name # name)]
         /\ result' = Outcome("delete_exercise", <<username, name>>, "ok",
                              NoInfo)
         /\ UNCHANGED <<now, users, archive, backups, snapshot, taken>>

\* save_workout(exercise, weight, reps, username)
save_workout(exercise, weight, reps, username) ==
    IF ~CanRead(dirs, username, "workouts")
    THEN Raised("save_workout", <<username, exercise>>)
    ELSE LET set == [date |-> IsoDate(Today(now)), exercise |-> exercise,
                     weight |-> weight, reps |-> reps]
         IN
         /\ Len(dirs[username].workouts) < MaxWorkouts
         /\ dirs' = [dirs EXCEPT ![username].workouts = Append(@, set)]
         /\ result' = Outcome("save_workout", <<username, exercise>>, "ok",
                              [set |-> set])
         /\ UNCHANGED <<now, users, archive, backups, snapshot, taken>>

\* save_workout in session s, first half: load_workouts and the append to
\* the list in memory
load_workouts(s, exercise, weight, reps, username) ==
    /\ sessions[s].pc = "idle"
    /\ IF ~CanRead(dirs, username, "workouts")
       THEN /\ Raised("save_workout", <<username, exercise>>)
            /\ UNCHANGED sessions
       ELSE LET set == [date |-> IsoDate(Today(now)), exercise |-> exercise,
                        weight |-> weight, reps |-> reps]
            IN
            /\ Len(dirs[username].workouts) < MaxWorkouts
            /\ sessions' = [sessions EXCEPT ![s] =
                   [pc |-> "loaded",
                    workouts |-> Append(dirs[username].workouts, set)]]
            /\ UNCHANGED <<now, users, dirs, archive, backups, snapshot,
                           taken, result>>

\* the list json.dump writes over the workouts file
dumped_reloaded(s, username) ==
    Append(dirs[username].workouts,
           sessions[s].workouts[Len(sessions[s].workouts)])

dumped(s, username) == sessions[s].workouts

\* save_workout in session s, second half: open(..., 'w') and json.dump of
\* the list in memory; the session keeps the list it wrote
dump_workouts(s, username) ==
    /\ sessions[s].pc = "loaded"
    /\ username \in DOMAIN dirs
    /\ LET workouts == dumped(s, username)
           set == workouts[Len(workouts)]
       IN
       /\ dirs' = [dirs EXCEPT ![username].workouts = workouts,
                                ![username].lost = @ \ {"workouts"}]
       /\ result' = Outcome("save_workout", <<username, set.exercise>>,
                            "ok", [set |-> set])
    /\ sessions' = [sessions EXCEPT ![s].pc = "idle"]
    /\ UNCHANGED <<now, users, archive, backups, snapshot, taken>>

(***************************************************************************)
(* CSV import.  A table is what pd.read_csv returns: its columns and its   *)
(* rows; a cell of a numeric column is a number or a text.                 *)
(***************************************************************************)
NumberCell(n) == [kind |-> "number", value |-> n]
TextCell == [kind |-> "text", value |-> 0]

required_columns == {"date", "exercise", "weight", "reps"}

\* the exercise names typed, uploaded or stored: "b", "B", "c" and " c"
RawNames == {<<98>>, <<66>>, <<99>>, <<Space, 99>>}
MuscleGroups == {"Chest", "Back"}

\* Series.unique(): the distinct values in order of first appearance
RECURSIVE Unique(_)
Unique(seq) ==
    IF seq = <<>> THEN <<>>
    ELSE LET front == Unique(SubSeq(seq, 1, Len(seq) - 1))
             last == seq[Len(seq)]
         IN  IF \E i \in 1..Len(front) : front[i] = last
             THEN front ELSE Append(front, last)

\* the entries import_from_csv adds for the names not in the catalog
RECURSIVE new_exercises(_, _, _)
new_exercises(names, existing_names, t) ==
    IF names = <<>> THEN <<>>
    ELSE LET exercise_name == Strip(Head(names))
             rest == new_exercises(Tail(names), existing_names, t)
         IN  IF exercise_name \notin existing_names
             THEN <<[name |-> exercise_name, muscle_group |-> "Other",
                     created_at |-> t]>> \o rest
             ELSE rest

\* the loop over the rows: to_datetime(...).strftime, float(...), int(...);
\* the first row that cannot be coerced raises
RECURSIVE convert_rows(_, _)
convert_rows(rows, workouts) ==
    IF rows = <<>> THEN [ok |-> TRUE, workouts |-> workouts]
    ELSE LET workout == Head(rows)
             date == to_datetime(workout.date)
         IN  IF \/ date = NaD
                \/ workout.weight.kind # "number"
                \/ workout.reps.kind # "number"
             THEN [ok |-> FALSE, workouts |-> workouts]
             ELSE convert_rows(Tail(rows),
                     Append(workouts,
                            [date |-> IsoDate(date),
                             exercise |-> workout.exercise,
                             weight |-> workout.weight.value,
                             reps |-> workout.reps.value]))

\* import_from_csv(file, username)
import_from_csv(file, username) ==
    LET op == "import_from_csv"
        failed(status) == result' = Outcome(op, username, status, NoInfo)
    IN
    IF ~(required_columns \subseteq file.columns)
    THEN /\ failed("ValidationError")
         /\ UNCHANGED <<now, users, dirs, archive, backups, snapshot, taken>>
    ELSE IF ~CanRead(dirs, username, "exercises")
    THEN \* load_exercises raises, the except clause returns the failure
         /\ failed("Error")
         /\ UNCHANGED <<now, users, dirs, archive, backups, snapshot, taken>>
    ELSE LET rows == [i \in 1..Len(file.rows) |->
                         [file.rows[i] EXCEPT
                             !.exercise = normalize_exercise_name(@)]]
             existing_exercises == dirs[username].exercises
             existing_names ==
                 {normalize_exercise_name(existing_exercises[i].name) :
                      i \in 1..Len(existing_exercises)}
             added == new_exercises(
                          Unique([i \in 1..Len(rows) |-> rows[i].exercise]),
                          existing_names, now)
             catalog == existing_exercises \o added
             \* load_workouts raises when the workouts file is missing
             converted == IF CanRead(dirs, username, "workouts")
                          THEN convert_rows(rows, dirs[username].workouts)
                          ELSE [ok |-> FALSE, workouts |-> <<>>]
         IN
         /\ Len(catalog) <= MaxCatalog
         /\ Len(converted.workouts) <= MaxWorkouts
         /\ UNCHANGED <<now, users, archive, backups, snapshot, taken>>
         /\ IF converted.ok
            THEN /\ dirs' = [dirs EXCEPT
                                ![username].exercises = catalog,
                                ![username].workouts = converted.workouts]
                 /\ result' = Outcome(op, username, "ok", NoInfo)
            ELSE \* the exercises file was written before the exception
                 /\ dirs' = [dirs EXCEPT ![username].exercises = catalog]
                 /\ failed("Error")

\* the entries import_exercises_from_csv adds: existing_names is computed
\* once, before the loop
RECURSIVE new_rows(_, _, _)
new_rows(names, existing_names, t) ==
    IF names = <<>> THEN <<>>
    ELSE LET exercise_name == Strip(Head(names))
             rest == new_rows(Tail(names), existing_names, t)
         IN  IF Lower(exercise_name) \notin existing_names
             THEN <<[name |-> exercise_name, muscle_group |-> "Other",
                     created_at |-> t]>> \o rest
             ELSE rest

\* import_exercises_from_csv(file, username); file is the 'exercise' column
import_exercises_from_csv(file, username) ==
    IF ~CanRead(dirs, username, "exercises")
    THEN /\ result' = Outcome("import_exercises_from_csv", username, "Error",
                              NoInfo)
         /\ UNCHANGED <<now, users, dirs, archive, backups, snapshot, taken>>
    ELSE LET existing == dirs[username].exercises
             existing_names == {Lower(existing[i].name) :
                                    i \in 1..Len(existing)}
             added == new_rows(file, existing_names, now)
         IN
         /\ Len(existing \o added) <= MaxCatalog
         /\ dirs' = [dirs EXCEPT ![username].exercises = existing \o added]
         /\ result' = Outcome("import_exercises_from_csv", username, "ok",
                              NoInfo)
         /\ UNCHANGED <<now, users, archive, backups, snapshot, taken>>

last_workouts_ascending(workouts, exercise) ==
    LET matching == {i \in 1..Len(workouts) :
                        workouts[i].exercise = exercise}
        first == {i \in matching : \A j \in matching :
                     to_datetime(workouts[i].date)
                         <= to_datetime(workouts[j].date)}
    IN  IF matching = {} THEN {<<>>} ELSE {<<workouts[i]>> : i \in first}

\* the rows get_last_workout can return, <<>> for None: sort_values('date',
\* ascending=False) uses an unstable sort, so among the sets of the exercise
\* with the latest date any one may come first
last_workouts(workouts, exercise) ==
    LET matching == {i \in 1..Len(workouts) :
                        workouts[i].exercise = exercise}
        first == {i \in matching : \A j \in matching :
                     to_datetime(workouts[j].date)
                         <= to_datetime(workouts[i].date)}
    IN  IF matching = {} THEN {<<>>} ELSE {<<workouts[i]>> : i \in first}

\* get_last_workout(exercise, username)
get_last_workout(exercise, username) ==
    IF ~CanRead(dirs, username, "workouts")
    THEN Raised("get_last_workout", <<username, exercise>>)
    ELSE \E row \in last_workouts(dirs[username].workouts, exercise) :
         /\ result' = Outcome("get_last_workout", <<username, exercise>>,
                              "ok", [returned |-> row])
         /\ UNCHANGED <<now, users, dirs, archive, backups, snapshot, taken>>

(***************************************************************************)
(* Specifications.                                                         *)
(***************************************************************************)
\* the inputs of the store operations
bench == <<98>>

\* the names of the catalog, as the selectbox of log_workout offers them
CatalogNames(username) ==
    IF username \in DOMAIN dirs
    THEN {dirs[username].exercises[i].name :
              i \in 1..Len(dirs[username].exercises)}
    ELSE {}

\* one more call, while the behaviour may make calls
Call(bound, A) ==
    /\ calls < bound
    /\ calls' = calls + 1
    /\ UNCHANGED sessions
    /\ A

\* Lifecycle: registry, archive, backups and snapshots of two users
Next ==
    \/ Tick(MaxTime)
    \/ \E name \in UserNames, code \in Codes :
          Call(MaxCalls, save_user(name, code))
    \/ \E name \in UserNames, code \in TypedCodes \cup {EmptyInput},
          delay \in {0, 1} :
          Call(MaxCalls, delete_user(name, code, delay, MaxTime))
    \/ \E name \in UserNames, fault \in CopyFaults :
          Call(MaxCalls, restore_user(name, fault))
    \/ Call(MaxCalls, backup_all)
    \/ Call(MaxCalls, create_backup_file)
    \/ Call(MaxCalls, restore_from_backup_file)
    \/ \E name \in UserNames :
          Call(MaxCalls, save_exercise(bench, "Chest", name))
    \/ \E name \in UserNames :
          Call(MaxCalls, save_workout(bench, 60, 5, name))

Spec == Init /\ [][Next]_vars

\* all sequences over S of length at most n
SeqsUpTo(S, n) == UNION {[1..k -> S] : k \in 0..n}

\* rows of an uploaded workouts table: two dates in two notations, names
\* that are not normalized, and cells that cannot be coerced
CsvRows ==
    {[date |-> IsoDate(MakeDate(2023, 12, 31)), exercise |-> <<66>>,
      weight |-> NumberCell(70), reps |-> NumberCell(5)],
     [date |-> UsDate(MakeDate(2024, 1, 1)), exercise |-> <<Space, 99>>,
      weight |-> NumberCell(70), reps |-> NumberCell(5)],
     [date |-> <<110, 97>>, exercise |-> <<98>>,
      weight |-> NumberCell(60), reps |-> NumberCell(5)],
     [date |-> IsoDate(MakeDate(2024, 1, 1)), exercise |-> <<99>>,
      weight |-> NumberCell(60), reps |-> TextCell],
     [date |-> IsoDate(MakeDate(2024, 1, 1)), exercise |-> <<99>>,
      weight |-> TextCell, reps |-> NumberCell(5)]}

CsvFiles ==
    {[columns |-> required_columns, rows |-> r] :
        r \in SeqsUpTo(CsvRows, MaxRows)}
    \cup {[columns |-> required_columns \ {"reps"},
           rows |-> <<[date |-> IsoDate(MakeDate(2024, 1, 1)),
                       exercise |-> <<99>>,
                       weight |-> NumberCell(60)]>>]}

ExerciseFiles == SeqsUpTo(RawNames, MaxRows)

Exercises == {normalize_exercise_name(name) : name \in RawNames}

\* the state after save_user(al) in the initial state
InitUser ==
    /\ now = 0
    /\ users = <<[id |-> 1, name |-> al, created_at |-> 0,
                  protection_code |-> "1234"]>>
    /\ dirs = Put(EmptyMap, al, EmptyDir)
    /\ archive = EmptyMap
    /\ backups = EmptyMap
    /\ snapshot = <<>>
    /\ calls = 0
    /\ taken = {}
    /\ result = Outcome("save_user", al, "ok", NoInfo)
    /\ sessions = Idle

\* Catalog: the exercise catalog of one user
NextCatalog ==
    \/ Tick(MaxTime)
    \/ \E name \in RawNames, muscle_group \in MuscleGroups :
          save_exercise(name, muscle_group, al) /\ UNCHANGED <<calls, sessions>>
    \/ \E name \in CatalogNames(al) :
          delete_exercise(name, al) /\ UNCHANGED <<calls, sessions>>
    \/ \E file \in ExerciseFiles :
          import_exercises_from_csv(file, al)
             /\ UNCHANGED <<calls, sessions>>
    \/ \E file \in CsvFiles :
          import_from_csv(file, al) /\ UNCHANGED <<calls, sessions>>

SpecCatalog == InitUser /\ [][NextCatalog]_vars

\* Workouts: the workouts collection of one user, on one day
NextWorkouts ==
    \/ save_exercise(<<99>>, "Chest", al) /\ UNCHANGED <<calls, sessions>>
    \/ \E exercise \in CatalogNames(al) :
          save_workout(exercise, 60, 5, al) /\ UNCHANGED <<calls, sessions>>
    \/ \E file \in CsvFiles :
          import_from_csv(file, al) /\ UNCHANGED <<calls, sessions>>
    \/ \E name \in CatalogNames(al) :
          delete_exercise(name, al) /\ UNCHANGED <<calls, sessions>>
    \/ \E exercise \in Exercises :
          get_last_workout(exercise, al) /\ UNCHANGED <<calls, sessions>>

SpecWorkouts == InitUser /\ [][NextWorkouts]_vars

\* Retention: backups taken at up to MaxBackupTime + 1 clock readings, by
\* create_backup itself and by the deletion of the registered user
NextBackup ==
    \/ Tick(MaxBackupTime)
    \/ Call(MaxBackupCalls, backup_all)
    \/ \E delay \in {0, 1} :
          Call(MaxBackupCalls,
               delete_user(al, "1234", delay, MaxBackupTime))

SpecBackup == InitUser /\ [][NextBackup]_vars

\* Sessions: two browser sessions of one user, each inside its own script
\* run, logging sets of the exercises of the catalog
Weights == {60, 70}

NextSessions ==
    \/ save_exercise(<<99>>, "Chest", al) /\ UNCHANGED <<calls, sessions>>
    \/ \E s \in Sessions, exercise \in CatalogNames(al), weight \in Weights :
          load_workouts(s, exercise, weight, 5, al) /\ UNCHANGED calls
    \/ \E s \in Sessions : dump_workouts(s, al) /\ UNCHANGED calls

SpecSessions == InitUser /\ [][NextSessions]_vars

(***************************************************************************)
(* Properties.                                                             *)
(***************************************************************************)
Registered(us) == {us[i].name : i \in 1..Len(us)}

\* the step is a call of op (in the specifications that count calls)
Called(op) == calls' # calls /\ result'.op = op

\* C1: save_user on a name that is already in the registry fails with
\* AlreadyExists and leaves the registry, the user directories, the archive
\* and the backups as they were.
C1_RegisterTwiceFails ==
    [][(Called("save_user") /\ result'.name \in Registered(users))
         => /\ result'.status = "AlreadyExists"
            /\ users' = users
            /\ dirs' = dirs
            /\ archive' = archive
            /\ backups' = backups]_vars

C1_Witness ==
    /\ result.op = "save_user"
    /\ result.status = "AlreadyExists"
    /\ result.name \in Registered(users)

\* C2: delete_user with an entered code that differs from the stored
\* protection code fails with InvalidCode (an empty entry is refused as
\* missing) and changes nothing: the user stays registered, its directory
\* stays, no backup folder and no archive folder is created.
C2_WrongCodeChangesNothing ==
    [][(/\ Called("delete_user")
        /\ result'.name \in Registered(users)
        /\ \E i \in 1..Len(users) :
              /\ users[i].name = result'.name
              /\ users[i].protection_code # result'.info.code)
         => /\ result'.status =
                   IF result'.info.code = EmptyInput THEN "CodeMissing"
                   ELSE "InvalidCode"
            /\ users' = users
            /\ dirs' = dirs
            /\ DOMAIN backups' = DOMAIN backups
            /\ backups' = backups
            /\ archive' = archive]_vars

C2_Witness ==
    /\ result.op = "delete_user"
    /\ result.status = "InvalidCode"
    /\ result.name \in Registered(users)
    /\ result.name \in DOMAIN dirs
    /\ result.info.code \in TypedCodes

\* C3: a username has a directory under the data root if and only if it is
\* in the registry.
C3_StoreIffActive ==
    \A name \in UserNames : (name \in DOMAIN dirs) <=> (name \in Registered(users))

\* C4: a successful delete_user(name) followed by a successful
\* restore_user(name) leaves name registered with the exercises and the
\* workouts it had before the delete, and the archive folder that delete
\* created is gone.
C4_DeleteThenRestore ==
    [][(/\ Called("restore_user")
        /\ result'.status = "ok"
        /\ result.op = "delete_user"
        /\ result.status = "ok"
        /\ result.name = result'.name
        /\ result.info.before # <<>>)
         => /\ result.name \in Registered(users')
            /\ result.name \in DOMAIN dirs'
            /\ dirs'[result.name].exercises = result.info.before[1].exercises
            /\ dirs'[result.name].workouts = result.info.before[1].workouts
            /\ \A i \in 1..Len(result.info.folder) :
                  result.info.folder[i] \notin DOMAIN archive']_vars

\* C5 as claimed: restore_user for a registered name fails with
\* AlreadyExists, with or without an archive folder, and changes nothing.
C5_RestoreActiveAlreadyExists ==
    [][(Called("restore_user") /\ result'.name \in Registered(users))
         => /\ result'.status = "AlreadyExists"
            /\ users' = users
            /\ dirs' = dirs
            /\ archive' = archive]_vars

\* C5 as amended: restore_user for a registered name fails and changes
\* nothing; the failure is AlreadyExists when the archive holds a folder
\* whose name starts with name_, and NotFound when it holds none.
C5_RestoreActiveFails ==
    [][(Called("restore_user") /\ result'.name \in Registered(users))
         => /\ result'.status =
                   IF \E d \in DOMAIN archive :
                         StartsWith(d, result'.name \o <<Underscore>>)
                   THEN "AlreadyExists" ELSE "NotFound"
            /\ users' = users
            /\ dirs' = dirs
            /\ archive' = archive]_vars

C5_Witness ==
    /\ result.op = "restore_user"
    /\ result.status = "AlreadyExists"
    /\ result.name \in Registered(users)
    /\ \E d \in DOMAIN archive : StartsWith(d, result.name \o <<Underscore>>)

\* C6: restore_from_backup_file applied to the text create_backup_file has
\* just produced succeeds and leaves the registry and the exercises and
\* workouts of every registered user as they were.
C6_SnapshotRoundTrip ==
    [][(Called("restore_from_backup_file")
        /\ result.op = "create_backup_file")
         => /\ result'.status = "ok"
            /\ users' = users
            /\ \A name \in Registered(users) :
                  name \in DOMAIN dirs =>
                     /\ name \in DOMAIN dirs'
                     /\ dirs'[name].exercises = dirs[name].exercises
                     /\ dirs'[name].workouts = dirs[name].workouts]_vars

C6_Witness ==
    /\ result.op = "restore_from_backup_file"
    /\ result.status = "ok"
    /\ result.info.previous = "create_backup_file"
    /\ \E name \in Registered(users) :
          /\ name \in DOMAIN dirs
          /\ dirs[name].exercises # <<>>
          /\ dirs[name].workouts # <<>>

\* C7: after two consecutive save_exercise calls whose names normalize to
\* the same string and whose muscle groups differ, the catalog holds exactly
\* one entry with that normalized name, with the muscle group of the second
\* call and the created_at the entry had after the first call.
C7_UpsertTwice ==
    [][(/\ now' = now
        /\ result.op = "save_exercise" /\ result.status = "ok"
        /\ result'.op = "save_exercise" /\ result'.status = "ok"
        /\ result'.name[1] = result.name[1]
        /\ normalize_exercise_name(result'.name[2])
              = normalize_exercise_name(result.name[2])
        /\ result'.info.muscle_group # result.info.muscle_group)
         => LET username == result.name[1]
                normalized == normalize_exercise_name(result.name[2])
                old == dirs[username].exercises
                new == dirs'[username].exercises
                entries(list) ==
                    {i \in 1..Len(list) :
                        normalize_exercise_name(list[i].name) = normalized}
            IN  /\ Cardinality(entries(new)) = 1
                /\ \A i \in entries(new) :
                      /\ new[i].name = normalized
                      /\ new[i].muscle_group = result'.info.muscle_group
                      /\ \A k \in entries(old) :
                            new[i].created_at = old[k].created_at]_vars

\* the sets of an exercise, by position in the workouts collection
SetsOf(workouts, exercise) ==
    {i \in 1..Len(workouts) : workouts[i].exercise = exercise}

Latest(S) == CHOOSE i \in S : \A j \in S : j <= i

\* C8 as claimed: get_last_workout returns None while the user has no set of
\* the exercise, and otherwise the set of the exercise appended last.
C8_LastAppended ==
    (result.op = "get_last_workout" /\ result.status = "ok")
      => LET workouts == dirs[result.name[1]].workouts
             sets == SetsOf(workouts, result.name[2])
         IN  IF sets = {} THEN result.info.returned = <<>>
             ELSE result.info.returned = <<workouts[Latest(sets)]>>

\* C8 as amended: get_last_workout returns None while the user has no set
\* of the exercise, and otherwise a set of the exercise with the latest date
\* among them, which need not be the one appended last.
C8_LastByDate ==
    (result.op = "get_last_workout" /\ result.status = "ok")
      => LET workouts == dirs[result.name[1]].workouts
             sets == SetsOf(workouts, result.name[2])
         IN  IF sets = {} THEN result.info.returned = <<>>
             ELSE /\ Len(result.info.returned) = 1
                  /\ \E i \in sets : result.info.returned[1] = workouts[i]
                  /\ \A j \in sets :
                        ~LexLess(result.info.returned[1].date,
                                 workouts[j].date)

C8_Witness ==
    /\ result.op = "get_last_workout"
    /\ result.status = "ok"
    /\ LET workouts == dirs[result.name[1]].workouts
           sets == SetsOf(workouts, result.name[2])
       IN  /\ Cardinality(sets) >= 2
           /\ result.info.returned # <<>>
           /\ result.info.returned # <<workouts[Latest(sets)]>>
           /\ LexLess(workouts[Latest(sets)].date,
                      result.info.returned[1].date)

\* the n last names of S in the order of the names
LastNames(S, n) == {b \in S : Cardinality({c \in S : LexLess(b, c)}) < n}

\* C9: after every completed create_backup at most 5 backup folders exist,
\* and they are the ones with the 5 latest timestamps among all backups
\* taken; 7 backups at distinct timestamps leave the 5 most recent.
C9_Retention ==
    /\ Cardinality(DOMAIN backups) <= 5
    /\ DOMAIN backups = LastNames(taken, 5)

C9_Witness ==
    /\ Cardinality(taken) = 7
    /\ Cardinality(DOMAIN backups) = 5
    /\ result.op = "create_backup"
    /\ result.status = "ok"

\* C10: an import_from_csv call that returns failure leaves the exercise
\* catalog and the workouts collection of the user as they were.
C10_FailedImportCommitsNothing ==
    [][(/\ now' = now
        /\ result'.op = "import_from_csv"
        /\ result'.status # "ok")
         => dirs' = dirs]_vars

\* C11: after every successful save_user(name) the directory of name exists
\* and its exercises collection and its workouts collection are both empty.
C11_RegisterStartsEmpty ==
    [][(Called("save_user") /\ result'.status = "ok")
         => /\ result'.name \in DOMAIN dirs'
            /\ dirs'[result'.name].lost = {}
            /\ dirs'[result'.name].exercises = <<>>
            /\ dirs'[result'.name].workouts = <<>>]_vars

\* C12: every record of the registry, written by save_user or by
\* restore_user, carries a 4-digit protection code (so that delete_user can
\* be passed the code of the record).
C12_EveryRecordHasCode ==
    \A i \in 1..Len(users) : users[i].protection_code \in Codes

\* C13: a successful delete_user(name) leaves a backup folder that holds the
\* registry record of name and a copy of the directory of name; afterwards
\* name is not in the registry, has no directory under the data root, and
\* its exercises and workouts are in a new archive folder name_<timestamp>.
C13_BackupRemoveMove ==
    [][(Called("delete_user") /\ result'.status = "ok")
         => LET name == result'.name
                made == result'.info.backup
            IN  /\ name \in DOMAIN dirs
                /\ made \in DOMAIN backups'
                /\ HasUser(backups'[made].users, name)
                /\ name \in DOMAIN backups'[made].sub
                /\ backups'[made].sub[name] = dirs[name]
                /\ name \notin Registered(users')
                /\ name \notin DOMAIN dirs'
                /\ \E d \in (DOMAIN archive') \ (DOMAIN archive) :
                      /\ d = ArchiveName(name, now')
                      /\ archive'[d].exercises = dirs[name].exercises
                      /\ archive'[d].workouts = dirs[name].workouts]_vars

\* the archive folders a delete_user of name wrote
OwnArchives(arch, name) ==
    {d \in DOMAIN arch : \E t \in 0..MaxTime : d = ArchiveName(name, t)}

\* C14: restore_user(name) takes its data from the archive folder with the
\* latest timestamp among those a delete_user of name wrote; when there is
\* none it fails with NotFound and restores nothing.
C14_RestoreOwnArchive ==
    [][Called("restore_user")
         => LET name == result'.name
                own == OwnArchives(archive, name)
            IN  IF own = {}
                THEN /\ result'.status = "NotFound"
                     /\ users' = users
                     /\ dirs' = dirs
                     /\ archive' = archive
                ELSE result'.status = "ok"
                       => /\ result'.info.folder \in own
                          /\ \A d \in own :
                                ~LexLess(result'.info.folder, d)
                          /\ dirs'[name] = archive[result'.info.folder]]_vars

\* C15 as claimed: when copytree fails inside restore_user, the call returns
\* failure with name in the registry, with none or a part of the archived
\* data in its directory, and with no archive folder of name left.
C15_FailedCopyLosesArchive ==
    [][(Called("restore_user") /\ result'.status = "Error")
         => LET name == result'.name
                folder == result'.info.folder
            IN  /\ name \in Registered(users')
                /\ \/ name \notin DOMAIN dirs'
                   \/ \E uncopied \in SUBSET Entries :
                         dirs'[name] = PartialCopy(archive[folder], uncopied)
                /\ user_archives(archive', name) = {}]_vars

\* C15 as amended: when copytree fails inside restore_user, the call returns
\* failure with name in the registry, with none or a part of the archived
\* data in its directory, and with the archive folder still in place and
\* unchanged.
C15_FailedCopyKeepsArchive ==
    [][(Called("restore_user") /\ result'.status = "Error")
         => LET name == result'.name
                folder == result'.info.folder
            IN  /\ name \in Registered(users')
                /\ \/ name \notin DOMAIN dirs'
                   \/ \E uncopied \in SUBSET Entries :
                         dirs'[name] = PartialCopy(archive[folder], uncopied)
                /\ archive' = archive
                /\ folder \in DOMAIN archive']_vars

C15_Witness ==
    /\ result.op = "restore_user"
    /\ result.status = "Error"
    /\ result.name \in Registered(users)
    /\ result.name \in DOMAIN dirs
    /\ dirs[result.name].lost = {"workouts"}
    /\ dirs[result.name].exercises # <<>>
    /\ result.info.folder \in DOMAIN archive
    /\ archive[result.info.folder].exercises = dirs[result.name].exercises

\* C16: no two records of the registry have the same id.
C16_IdsUnique ==
    \A i, j \in 1..Len(users) : i # j => users[i].id # users[j].id

\* C17: every workout set of a user names an exercise of the catalog of
\* that user.
C17_WorkoutsNameCatalog ==
    \A username \in DOMAIN dirs :
       \A i \in 1..Len(dirs[username].workouts) :
          \E k \in 1..Len(dirs[username].exercises) :
             normalize_exercise_name(dirs[username].exercises[k].name)
                = normalize_exercise_name(dirs[username].workouts[i].exercise)

\* C18: no two entries of the catalog of a user have names with the same
\* normalized form.
C18_NormalizedNameIsKey ==
    \A username \in DOMAIN dirs :
       \A i, k \in 1..Len(dirs[username].exercises) :
          i # k => normalize_exercise_name(dirs[username].exercises[i].name)
                     # normalize_exercise_name(dirs[username].exercises[k].name)

\* C19: two sessions inside save_workout for the same user can lose an
\* update.  The write of a session replaces the workouts file with the list
\* the session loaded plus its own set, so when another session has written
\* since the load the file does not grow by the write; C19_Witness is the
\* state after such an interleaving, the file holding one of the two sets.
C19_WriteReplacesFile ==
    [][\A s \in Sessions :
          (sessions[s].pc = "loaded" /\ sessions'[s].pc = "idle")
             => /\ dirs'[al].workouts = sessions[s].workouts
                /\ Len(dirs[al].workouts) >= Len(sessions[s].workouts)
                      => Len(dirs'[al].workouts) <= Len(dirs[al].workouts)
      ]_vars

C19_Witness ==
    /\ \A s \in Sessions : sessions[s].pc = "idle"
    /\ sessions[1].workouts # <<>>
    /\ Len(sessions[1].workouts) = Len(sessions[2].workouts)
    /\ LET mine == sessions[1].workouts[Len(sessions[1].workouts)]
           theirs == sessions[2].workouts[Len(sessions[2].workouts)]
           file == dirs[al].workouts
       IN  /\ mine # theirs
           /\ file = sessions[2].workouts
           /\ \A k \in 1..Len(file) : file[k] # mine
           /\ \E k \in 1..Len(file) : file[k] = theirs

====
